---------------------------- MODULE Spec2Model ----------------------------
(***************************************************************************)
(* TacticGame: the inline render/input loop of src/src/main.cpp, the       *)
(* reusable Camera class (src/src/Camera.cpp), the Shader helper           *)
(* (src/src/Shader.cpp) and the UV-sphere tessellation.                    *)
(*                                                                         *)
(* Floats are modelled in fixed point:                                     *)
(*   angles (yaw, pitch)            tenths of a degree                     *)
(*   cursor coordinates             pixels                                 *)
(*   scalars, the up vectors and                                           *)
(*   the rows of a view matrix      thousandths                            *)
(*   positions, the front vectors                                          *)
(*   and every normalised vector    millionths                             *)
(***************************************************************************)
EXTENDS Integers, Sequences, FiniteSets, TLC

---------------------------------------------------------------------------
(* Bounds of the model and the inputs the environment may deliver.         *)

MaxFrames == 3
MaxEvents == 3
PairFrames == 4
PairEvents == 5
MoveFrames == 3
MoveEvents == 4
IsoFrames == 3
IsoEvents == 6

AllKeys == {"C", "W", "S", "A", "D", "UP", "DOWN", "LEFT", "RIGHT", "ESCAPE"}
PairKeys == {"C", "ESCAPE"}
IsoKeys == {"C", "UP", "ESCAPE"}
MouseXs == {400, 750}
MouseYs == {300, 1250}
ScrollOffsets == {-1, 1, 200}
DeltaTimes == {1000, 16}

---------------------------------------------------------------------------
(* Fixed-point arithmetic and the vector helpers standing for glm.         *)

RoundDiv(a, b) == (2 * a + b) \div (2 * b)

\* the element of a one-element set; {e(x) : x \in {a}} computes a once
Only(S) == CHOOSE x \in S : TRUE

RECURSIVE Newton(_, _)
Newton(n, x) ==
    Only({IF y >= x THEN x ELSE Newton(n, y) : y \in {(x + n \div x) \div 2}})

Isqrt(n) == IF n <= 0 THEN 0 ELSE Newton(n, n)

Vec3(a, b, c) == [x |-> a, y |-> b, z |-> c]

VAdd(a, b) == Vec3(a.x + b.x, a.y + b.y, a.z + b.z)

VSub(a, b) == Vec3(a.x - b.x, a.y - b.y, a.z - b.z)

\* scalar (thousandths) * direction (millionths) = displacement (millionths)
VScale(s, v) ==
    Vec3(RoundDiv(s * v.x, 1000), RoundDiv(s * v.y, 1000), RoundDiv(s * v.z, 1000))

\* millionths -> thousandths
ToMilli(v) == Vec3(RoundDiv(v.x, 1000), RoundDiv(v.y, 1000), RoundDiv(v.z, 1000))

\* a * b of two numbers in millionths, in millionths; the factors are split
\* at 1000 so that no intermediate product leaves 32 bits
MulMicro(a, b) ==
    LET ah == a \div 1000
        al == a % 1000
        bh == b \div 1000
        bl == b % 1000
    IN  ah * bh + RoundDiv(ah * bl + al * bh + RoundDiv(al * bl, 1000), 1000)

\* a / b in millionths, by long division three digits at a time;
\* |a| <= 2000000 and 0 < b <= 2000000
DivMicro(a, b) ==
    LET n == 1000 * a
    IN  1000 * (n \div b) + (1000 * (n % b) + b \div 2) \div b

\* glm::cross of a vector in millionths with one in thousandths, the
\* products kept whole: only the direction of the result is used
CrossMicro(a, b) ==
    Vec3(a.y * b.z - a.z * b.y,
         a.z * b.x - a.x * b.z,
         a.x * b.y - a.y * b.x)

\* glm::cross of two vectors in millionths, result in millionths
Cross(a, b) ==
    Vec3(MulMicro(a.y, b.z) - MulMicro(a.z, b.y),
         MulMicro(a.z, b.x) - MulMicro(a.x, b.z),
         MulMicro(a.x, b.y) - MulMicro(a.y, b.x))

\* glm::dot of two vectors in millionths, result in millionths
Dot(a, b) == MulMicro(a.x, b.x) + MulMicro(a.y, b.y) + MulMicro(a.z, b.z)

Abs(a) == IF a < 0 THEN -a ELSE a

\* the largest component of v in absolute value
MaxAbs(v) ==
    LET ax == Abs(v.x)
        ay == Abs(v.y)
        az == Abs(v.z)
    IN  IF ax >= ay /\ ax >= az THEN ax ELSE IF ay >= az THEN ay ELSE az

\* v with its components divided so that the largest is at most 2000000
Shrink(v) ==
    LET d == MaxAbs(v) \div 2000000 + 1
    IN  Vec3(RoundDiv(v.x, d), RoundDiv(v.y, d), RoundDiv(v.z, d))

\* v (not zero) divided by its largest component, in millionths
Rescale(v) ==
    LET m == MaxAbs(v)
    IN  Vec3(DivMicro(v.x, m), DivMicro(v.y, m), DivMicro(v.z, m))

\* ten times the length of r / 50, r as Rescale returns it: the root of a
\* sum of squares below 2^31, with one more digit from the remainder
Length10(r) ==
    LET wx == RoundDiv(r.x, 50)
        wy == RoundDiv(r.y, 50)
        wz == RoundDiv(r.z, 50)
        n == wx * wx + wy * wy + wz * wz
    IN  Only({10 * l + (10 * (n - l * l)) \div (2 * l) : l \in {Isqrt(n)}})

\* r times 20000 / (len10 / 10): r over its length, in millionths
Unit(r, len10) ==
    Only({Vec3(MulMicro(r.x, k), MulMicro(r.y, k), MulMicro(r.z, k)) :
             k \in {DivMicro(200000, len10)}})

\* glm::normalize: v / sqrt(dot(v, v)).  v may be in any unit (the result
\* does not depend on it); the result is in millionths.  v is first divided
\* by its largest component, which keeps the ratios of its components to a
\* millionth however short v is; the length of that vector is then taken
\* to 1 part in 20000 or better from squares that fit 32 bits.  Each stage
\* is computed once.  glm yields NaN for the zero vector; the pitch clamp
\* keeps every vector normalised here non-zero.  NormalizeValue takes the
\* vector as a value.
NormalizeValue(v) ==
    IF MaxAbs(v) = 0 THEN v
    ELSE Only({Unit(r, Length10(r)) : r \in {Rescale(c) : c \in {Shrink(v)}}})

Normalize(v) == Only({NormalizeValue(u) : u \in {v}})

\* sin of 0..90 whole degrees, in millionths
SinTable ==
    <<0, 17452, 34899, 52336, 69756, 87156, 104528, 121869, 139173, 156434,
      173648, 190809, 207912, 224951, 241922, 258819, 275637, 292372,
      309017, 325568, 342020, 358368, 374607, 390731, 406737, 422618,
      438371, 453990, 469472, 484810, 500000, 515038, 529919, 544639,
      559193, 573576, 587785, 601815, 615661, 629320, 642788, 656059,
      669131, 681998, 694658, 707107, 719340, 731354, 743145, 754710,
      766044, 777146, 788011, 798636, 809017, 819152, 829038, 838671,
      848048, 857167, 866025, 874620, 882948, 891007, 898794, 906308,
      913545, 920505, 927184, 933580, 939693, 945519, 951057, 956305,
      961262, 965926, 970296, 974370, 978148, 981627, 984808, 987688,
      990268, 992546, 994522, 996195, 997564, 998630, 999391, 999848,
      1000000>>

\* sin of m tenths of a degree, 0 <= m <= 900, interpolated in the table
SinQuadrant(m) ==
    LET d == m \div 10
        r == m % 10
    IN  IF r = 0 THEN SinTable[d + 1]
        ELSE SinTable[d + 1] + RoundDiv((SinTable[d + 2] - SinTable[d + 1]) * r, 10)

\* sin(glm::radians(a)), a in tenths of a degree, in millionths
SinMicro(a) ==
    LET m == a % 3600
    IN  IF m <= 900 THEN SinQuadrant(m)
        ELSE IF m <= 1800 THEN SinQuadrant(1800 - m)
        ELSE IF m <= 2700 THEN -SinQuadrant(m - 1800)
        ELSE -SinQuadrant(3600 - m)

\* cos(glm::radians(a)), in millionths
CosMicro(a) == SinMicro(a + 900)

\* sin(glm::radians(a)), a in tenths of a degree, in thousandths
Sin(a) == RoundDiv(SinMicro(a), 1000)

\* cos(glm::radians(a)), in thousandths
Cos(a) == Sin(a + 900)

\* the front vector recomputed from yaw and pitch, in millionths
Direction(yw, pt) ==
    Normalize(Vec3(MulMicro(CosMicro(yw), CosMicro(pt)),
                   SinMicro(pt),
                   MulMicro(SinMicro(yw), CosMicro(pt))))

\* glm::lookAt (right-handed): eye, center in millionths, up in thousandths;
\* the rows of the view matrix (side, up, -forward) and its translation,
\* computed in millionths and given in thousandths
LookAtRows(e, f, s, u) ==
    [side |-> ToMilli(s), upv |-> ToMilli(u),
     back |-> ToMilli(Vec3(-f.x, -f.y, -f.z)),
     trans |-> ToMilli(Vec3(-Dot(s, e), -Dot(u, e), Dot(f, e)))]

LookAt(eye, center, up) ==
    Only({Only({Only({LookAtRows(eye, f, s, u) : u \in {Cross(s, f)}}) :
                   s \in {Normalize(CrossMicro(f, up))}}) :
             f \in {Normalize(VSub(center, eye))}})

Origin == Vec3(0, 0, 0)

WorldUp == Vec3(0, 1000, 0)

\* glm::ortho(-zoom, zoom, -zoom, zoom, -10, 10)
Ortho(zoom) ==
    [left |-> -zoom, right |-> zoom, bottom |-> -zoom, top |-> zoom,
     near |-> -10000, far |-> 10000]

---------------------------------------------------------------------------
(* The Camera class (Camera.h, Camera.cpp): an object is a record of its   *)
(* private fields, a method is an operator returning the object after the  *)
(* call.                                                                   *)

Camera ==
    [mode_ |-> "Isometric",
     isoCamPos_ |-> Vec3(2000000, 2000000, 2000000),
     freeCamPos_ |-> Vec3(2000000, 2000000, 2000000),
     cameraFront_ |-> Vec3(0, 0, -1000000),
     cameraUp_ |-> Vec3(0, 1000, 0),
     yaw_ |-> -900,
     pitch_ |-> 0,
     firstMouse_ |-> TRUE,
     lastX_ |-> 400,
     lastY_ |-> 300,
     freeCamSpeed_ |-> 50,
     mouseSensitivity_ |-> 1,
     zoomLevel_ |-> 10000]

\* faulty variant: toggleMode without firstMouse_ = true
toggleModeKeepsFirstMouse(c) ==
    [c EXCEPT !.mode_ = IF c.mode_ = "Isometric" THEN "Free" ELSE "Isometric"]

toggleMode(c) ==
    [c EXCEPT !.mode_ = IF c.mode_ = "Isometric" THEN "Free" ELSE "Isometric",
              !.firstMouse_ = TRUE]

updateIsometric(c) == c

updateFree(c, deltaTime, upArrow, downArrow, leftArrow, rightArrow) ==
    LET forward == c.cameraFront_
        rightVec == Normalize(CrossMicro(c.cameraFront_, c.cameraUp_))
        step(v) == Vec3(MulMicro(v.x, c.freeCamSpeed_ * deltaTime),
                        MulMicro(v.y, c.freeCamSpeed_ * deltaTime),
                        MulMicro(v.z, c.freeCamSpeed_ * deltaTime))
        p0 == c.freeCamPos_
        p1 == IF upArrow THEN VAdd(p0, step(forward)) ELSE p0
        p2 == IF downArrow THEN VSub(p1, step(forward)) ELSE p1
        p3 == IF leftArrow THEN VSub(p2, step(rightVec)) ELSE p2
        p4 == IF rightArrow THEN VAdd(p3, step(rightVec)) ELSE p3
    IN  [c EXCEPT !.freeCamPos_ = p4]

handleMouse(c, xpos, ypos) ==
    IF c.mode_ # "Free" THEN c
    ELSE
        LET lx == IF c.firstMouse_ THEN xpos ELSE c.lastX_
            ly == IF c.firstMouse_ THEN ypos ELSE c.lastY_
            xoffset == (xpos - lx) * c.mouseSensitivity_
            yoffset == (ly - ypos) * c.mouseSensitivity_
            yw == c.yaw_ + xoffset
            p0 == c.pitch_ + yoffset
            p1 == IF p0 > 890 THEN 890 ELSE p0
            p2 == IF p1 < -890 THEN -890 ELSE p1
        IN  [c EXCEPT !.firstMouse_ = FALSE, !.lastX_ = xpos, !.lastY_ = ypos,
                      !.yaw_ = yw, !.pitch_ = p2,
                      !.cameraFront_ = Direction(yw, p2)]

getViewMatrix(c) ==
    IF c.mode_ = "Isometric"
    THEN LookAt(c.isoCamPos_, Origin, c.cameraUp_)
    ELSE LookAt(c.freeCamPos_, VAdd(c.freeCamPos_, VScale(1000, c.cameraFront_)),
                c.cameraUp_)

---------------------------------------------------------------------------
(* main.cpp: the globals, the GLFW callbacks and the render loop.          *)

VARIABLES
    pc,            \* where main is: a start-up step ("glfwInit", "createWindow",
                   \* "gladLoad", "setup"), "cond", a stage of the loop
                   \* body, "cleanup", "done"
    frame,         \* iterations of the loop started so far
    events,        \* input events GLFW has dispatched so far
    lastEvent,     \* the event dispatched last
    keysDown,      \* the keys glfwGetKey reports as GLFW_PRESS
    frameLog,      \* the stages the current iteration has completed, in order
    bound,         \* the frames and events this run may use
    cameraPos, playerPos, zoomLevel, isFreeCamera, cPressed,
    freeCamPos, cameraFront, cameraUp, yaw, pitch, lastX, lastY, firstMouse,
    shouldClose,   \* the window's should-close flag
    view, projection, viewPos, drawn,   \* what the frame uploaded and drew
    resources,     \* the GL objects main holds undeleted, and the GLFW library
    ret,           \* <<>> while main runs, <<code>> once it returned
    cam            \* a Camera object fed the same toggles and cursor events

playerMoveSpeed == 20000
freeCamSpeed == 50
mouseSensitivity == 1
gridSize == 10
sectors == 16
stacks == 16

inputVars == <<cameraPos, playerPos, zoomLevel, isFreeCamera, cPressed,
               freeCamPos, cameraFront, cameraUp, yaw, pitch, lastX, lastY,
               firstMouse>>
renderVars == <<view, projection, viewPos, drawn>>
loopVars == <<pc, frame, events, lastEvent, keysDown, frameLog, bound,
              shouldClose, resources, ret>>
loopVarsButPc == <<frame, events, lastEvent, keysDown, bound, shouldClose,
                   resources, ret>>
mainVars == <<inputVars, renderVars, loopVars>>

StageOrder == <<"poll", "toggle", "move", "escape", "render", "draw", "swap">>

NoEvent == [kind |-> "none", x |-> 0, y |-> 0]

\* what main holds on reaching the loop: the GLFW library (glfwInit), the
\* shader program, the cube's objects, the texture loadTexture generated and
\* the sphere's objects
AllResources == {"glfw", "shaderProgram", "cubeVAO", "cubeVBO", "cubeEBO",
                 "textureForCubes", "sphereVAO", "sphereVBO", "sphereEBO"}

\* what the cleanup after the loop releases: the objects it deletes and the
\* GLFW library it terminates; textureForCubes is not among them
CleanupReleases == {"cubeVAO", "cubeVBO", "cubeEBO", "sphereVAO", "sphereVBO",
                    "sphereEBO", "shaderProgram", "glfw"}

\* the globals as initialised, and main about to call glfwInit
InitMain ==
    /\ pc = "glfwInit"
    /\ frame = 0
    /\ events = 0
    /\ lastEvent = NoEvent
    /\ keysDown = {}
    /\ frameLog = <<>>
    /\ cameraPos = Vec3(2000000, 2000000, 2000000)
    /\ playerPos = Origin
    /\ zoomLevel = 10000
    /\ isFreeCamera = FALSE
    /\ cPressed = FALSE
    /\ freeCamPos = Vec3(2000000, 2000000, 2000000)
    /\ cameraFront = Vec3(0, 0, -1000000)
    /\ cameraUp = Vec3(0, 1000, 0)
    /\ yaw = -900
    /\ pitch = 0
    /\ lastX = 400
    /\ lastY = 300
    /\ firstMouse = TRUE
    /\ shouldClose = FALSE
    /\ view = LookAt(Vec3(0, 0, 1000000), Origin, WorldUp)
    /\ projection = Ortho(0)
    /\ viewPos = Origin
    /\ drawn = [cubes |-> 0, sphereIndexCount |-> 0]
    /\ resources = {}
    /\ ret = <<>>
    /\ cam = Camera

\* while (!glfwWindowShouldClose(window))
LoopCond ==
    /\ pc = "cond"
    /\ IF shouldClose
       THEN /\ pc' = "cleanup"
            /\ UNCHANGED <<frame, frameLog>>
       ELSE /\ frame < bound.frames
            /\ pc' = "poll"
            /\ frame' = frame + 1
            /\ frameLog' = <<>>
    /\ UNCHANGED <<events, lastEvent, keysDown, bound, shouldClose, resources, ret>>
    /\ UNCHANGED <<inputVars, renderVars>>

\* glfwPollEvents delivering a key event: GLFW flips the state glfwGetKey reads
PollKey(k) ==
    /\ pc = "poll"
    /\ events < bound.events
    /\ events' = events + 1
    /\ lastEvent' = [kind |-> "key", x |-> 0, y |-> 0]
    /\ keysDown' = IF k \in keysDown THEN keysDown \ {k} ELSE keysDown \cup {k}
    /\ UNCHANGED <<pc, frame, frameLog, bound, shouldClose, resources, ret>>
    /\ UNCHANGED <<inputVars, renderVars>>

\* faulty variant: mouse_callback without the isFreeCamera test
mouse_callback_any_mode(xpos, ypos) ==
    LET lx == IF firstMouse THEN xpos ELSE lastX
        ly == IF firstMouse THEN ypos ELSE lastY
        yw == yaw + (xpos - lx) * mouseSensitivity
        p0 == pitch + (ly - ypos) * mouseSensitivity
        p1 == IF p0 > 890 THEN 890 ELSE p0
        p2 == IF p1 < -890 THEN -890 ELSE p1
    IN  /\ firstMouse' = FALSE
        /\ lastX' = xpos
        /\ lastY' = ypos
        /\ yaw' = yw
        /\ pitch' = p2
        /\ cameraFront' = Direction(yw, p2)

\* faulty variant: mouse_callback without the pitch constraint
mouse_callback_unclamped(xpos, ypos) ==
    IF ~isFreeCamera
    THEN UNCHANGED <<firstMouse, lastX, lastY, yaw, pitch, cameraFront>>
    ELSE
        LET lx == IF firstMouse THEN xpos ELSE lastX
            ly == IF firstMouse THEN ypos ELSE lastY
            yw == yaw + (xpos - lx) * mouseSensitivity
            p0 == pitch + (ly - ypos) * mouseSensitivity
        IN  /\ firstMouse' = FALSE
            /\ lastX' = xpos
            /\ lastY' = ypos
            /\ yaw' = yw
            /\ pitch' = p0
            /\ cameraFront' = Direction(yw, p0)

\* faulty variant: mouse_callback without the firstMouse block
mouse_callback_jumps(xpos, ypos) ==
    IF ~isFreeCamera
    THEN UNCHANGED <<firstMouse, lastX, lastY, yaw, pitch, cameraFront>>
    ELSE
        LET yw == yaw + (xpos - lastX) * mouseSensitivity
            p0 == pitch + (lastY - ypos) * mouseSensitivity
            p1 == IF p0 > 890 THEN 890 ELSE p0
            p2 == IF p1 < -890 THEN -890 ELSE p1
        IN  /\ firstMouse' = FALSE
            /\ lastX' = xpos
            /\ lastY' = ypos
            /\ yaw' = yw
            /\ pitch' = p2
            /\ cameraFront' = Direction(yw, p2)

\* void mouse_callback(GLFWwindow*, double xpos, double ypos)
mouse_callback(xpos, ypos) ==
    IF ~isFreeCamera
    THEN UNCHANGED <<firstMouse, lastX, lastY, yaw, pitch, cameraFront>>
    ELSE
        LET lx == IF firstMouse THEN xpos ELSE lastX
            ly == IF firstMouse THEN ypos ELSE lastY
            xoffset == (xpos - lx) * mouseSensitivity
            yoffset == (ly - ypos) * mouseSensitivity
            yw == yaw + xoffset
            p0 == pitch + yoffset
            p1 == IF p0 > 890 THEN 890 ELSE p0
            p2 == IF p1 < -890 THEN -890 ELSE p1
        IN  /\ firstMouse' = FALSE
            /\ lastX' = xpos
            /\ lastY' = ypos
            /\ yaw' = yw
            /\ pitch' = p2
            /\ cameraFront' = Direction(yw, p2)

\* faulty variant: the zoom step without the floor at 0.1
scroll_callback_no_floor(yoffset) ==
    zoomLevel' = zoomLevel - yoffset * 100

\* void scroll_callback(GLFWwindow*, double xoffset, double yoffset)
scroll_callback(yoffset) ==
    LET z == zoomLevel - yoffset * 100
    IN  zoomLevel' = IF z < 100 THEN 100 ELSE z

\* glfwPollEvents delivering a cursor-position event to mouse_callback
PollCursor(xpos, ypos) ==
    /\ pc = "poll"
    /\ events < bound.events
    /\ events' = events + 1
    /\ lastEvent' = [kind |-> "cursor", x |-> xpos, y |-> ypos]
    /\ mouse_callback(xpos, ypos)
    /\ UNCHANGED <<pc, frame, keysDown, frameLog, bound, shouldClose, resources, ret>>
    /\ UNCHANGED <<cameraPos, playerPos, zoomLevel, isFreeCamera, cPressed,
                   freeCamPos, cameraUp>>
    /\ UNCHANGED renderVars

\* glfwPollEvents delivering a scroll event to scroll_callback
PollScroll(yoffset) ==
    /\ pc = "poll"
    /\ events < bound.events
    /\ events' = events + 1
    /\ lastEvent' = [kind |-> "scroll", x |-> 0, y |-> yoffset]
    /\ scroll_callback(yoffset)
    /\ UNCHANGED <<pc, frame, keysDown, frameLog, bound, shouldClose, resources, ret>>
    /\ UNCHANGED <<cameraPos, playerPos, isFreeCamera, cPressed, freeCamPos,
                   cameraFront, cameraUp, yaw, pitch, lastX, lastY, firstMouse>>
    /\ UNCHANGED renderVars

\* glfwPollEvents returns: no callback runs until the next call
PollEventsReturn ==
    /\ pc = "poll"
    /\ pc' = "toggle"
    /\ frameLog' = Append(frameLog, "poll")
    /\ UNCHANGED <<frame, events, lastEvent, keysDown, bound, shouldClose,
                   resources, ret>>
    /\ UNCHANGED <<inputVars, renderVars>>

\* faulty variant: the toggle without the cPressed latch
ToggleCheckNoLatch ==
    /\ pc = "toggle"
    /\ pc' = "move"
    /\ frameLog' = Append(frameLog, "toggle")
    /\ IF "C" \in keysDown
       THEN /\ isFreeCamera' = ~isFreeCamera
            /\ cPressed' = TRUE
            /\ firstMouse' = TRUE
       ELSE /\ cPressed' = FALSE
            /\ UNCHANGED <<isFreeCamera, firstMouse>>
    /\ UNCHANGED <<frame, events, lastEvent, keysDown, bound, shouldClose,
                   resources, ret>>
    /\ UNCHANGED <<cameraPos, playerPos, zoomLevel, freeCamPos, cameraFront,
                   cameraUp, yaw, pitch, lastX, lastY>>
    /\ UNCHANGED renderVars

\* 1) Check for toggle C
ToggleCheck ==
    /\ pc = "toggle"
    /\ pc' = "move"
    /\ frameLog' = Append(frameLog, "toggle")
    /\ IF "C" \in keysDown /\ ~cPressed
       THEN /\ isFreeCamera' = ~isFreeCamera
            /\ cPressed' = TRUE
            /\ firstMouse' = TRUE
       ELSE /\ cPressed' = IF "C" \notin keysDown THEN FALSE ELSE cPressed
            /\ UNCHANGED <<isFreeCamera, firstMouse>>
    /\ UNCHANGED <<frame, events, lastEvent, keysDown, bound, shouldClose,
                   resources, ret>>
    /\ UNCHANGED <<cameraPos, playerPos, zoomLevel, freeCamPos, cameraFront,
                   cameraUp, yaw, pitch, lastX, lastY>>
    /\ UNCHANGED renderVars

\* the player position after the W/S/A/D block
MovedPlayer ==
    LET z1 == IF "W" \in keysDown THEN playerPos.z - playerMoveSpeed ELSE playerPos.z
        z2 == IF "S" \in keysDown THEN z1 + playerMoveSpeed ELSE z1
        x1 == IF "A" \in keysDown THEN playerPos.x - playerMoveSpeed ELSE playerPos.x
        x2 == IF "D" \in keysDown THEN x1 + playerMoveSpeed ELSE x1
    IN  Vec3(x2, playerPos.y, z2)

\* the free-camera position after the arrow-key block
MovedFreeCam ==
    LET p1 == IF "UP" \in keysDown
              THEN VAdd(freeCamPos, VScale(freeCamSpeed, cameraFront))
              ELSE freeCamPos
        p2 == IF "DOWN" \in keysDown
              THEN VSub(p1, VScale(freeCamSpeed, cameraFront))
              ELSE p1
        camRight == Normalize(CrossMicro(cameraFront, cameraUp))
        p3 == IF "LEFT" \in keysDown
              THEN VSub(p2, VScale(freeCamSpeed, camRight))
              ELSE p2
        p4 == IF "RIGHT" \in keysDown
              THEN VAdd(p3, VScale(freeCamSpeed, camRight))
              ELSE p3
    IN  p4

\* faulty variant: the two movement blocks without the if/else on isFreeCamera
MovementBoth ==
    /\ pc = "move"
    /\ pc' = "escape"
    /\ frameLog' = Append(frameLog, "move")
    /\ playerPos' = MovedPlayer
    /\ freeCamPos' = MovedFreeCam
    /\ UNCHANGED <<frame, events, lastEvent, keysDown, bound, shouldClose,
                   resources, ret>>
    /\ UNCHANGED <<cameraPos, zoomLevel, isFreeCamera, cPressed, cameraFront,
                   cameraUp, yaw, pitch, lastX, lastY, firstMouse>>
    /\ UNCHANGED renderVars

\* faulty variant: an isometric branch that also moves cameraPos
MovementMovesIsoCamera ==
    /\ pc = "move"
    /\ pc' = "escape"
    /\ frameLog' = Append(frameLog, "move")
    /\ IF ~isFreeCamera
       THEN /\ playerPos' = MovedPlayer
            /\ cameraPos' = IF "UP" \in keysDown
                            THEN VAdd(cameraPos, VScale(freeCamSpeed, cameraFront))
                            ELSE cameraPos
            /\ UNCHANGED freeCamPos
       ELSE /\ freeCamPos' = MovedFreeCam
            /\ UNCHANGED <<playerPos, cameraPos>>
    /\ UNCHANGED <<frame, events, lastEvent, keysDown, bound, shouldClose,
                   resources, ret>>
    /\ UNCHANGED <<zoomLevel, isFreeCamera, cPressed, cameraFront,
                   cameraUp, yaw, pitch, lastX, lastY, firstMouse>>
    /\ UNCHANGED renderVars

\* 2) Move either the sphere or the free camera
Movement ==
    /\ pc = "move"
    /\ pc' = "escape"
    /\ frameLog' = Append(frameLog, "move")
    /\ IF ~isFreeCamera
       THEN /\ playerPos' = MovedPlayer
            /\ UNCHANGED freeCamPos
       ELSE /\ freeCamPos' = MovedFreeCam
            /\ UNCHANGED playerPos
    /\ UNCHANGED <<frame, events, lastEvent, keysDown, bound, shouldClose,
                   resources, ret>>
    /\ UNCHANGED <<cameraPos, zoomLevel, isFreeCamera, cPressed, cameraFront,
                   cameraUp, yaw, pitch, lastX, lastY, firstMouse>>
    /\ UNCHANGED renderVars

\* faulty variant: an Escape check that leaves the loop body at once
EscapeCheckSkipsRender ==
    /\ pc = "escape"
    /\ IF "ESCAPE" \in keysDown
       THEN /\ shouldClose' = TRUE
            /\ pc' = "cond"
       ELSE /\ UNCHANGED shouldClose
            /\ pc' = "render"
    /\ frameLog' = Append(frameLog, "escape")
    /\ UNCHANGED <<frame, events, lastEvent, keysDown, bound, resources, ret>>
    /\ UNCHANGED <<inputVars, renderVars>>

\* 3) Close window
EscapeCheck ==
    /\ pc = "escape"
    /\ pc' = "render"
    /\ frameLog' = Append(frameLog, "escape")
    /\ shouldClose' = IF "ESCAPE" \in keysDown THEN TRUE ELSE shouldClose
    /\ UNCHANGED <<frame, events, lastEvent, keysDown, bound, resources, ret>>
    /\ UNCHANGED <<inputVars, renderVars>>

\* the view matrix main builds for the current mode
MainView ==
    IF ~isFreeCamera
    THEN LookAt(cameraPos, Origin, WorldUp)
    ELSE LookAt(freeCamPos, VAdd(freeCamPos, VScale(1000, cameraFront)), cameraUp)

\* glClear, view and projection, glUseProgram and the uniform uploads
Render ==
    /\ pc = "render"
    /\ pc' = "draw"
    /\ frameLog' = Append(frameLog, "render")
    /\ view' = MainView
    /\ projection' = Ortho(zoomLevel)
    /\ viewPos' = IF isFreeCamera THEN freeCamPos ELSE cameraPos
    /\ drawn' = [cubes |-> 0, sphereIndexCount |-> 0]
    /\ UNCHANGED loopVarsButPc
    /\ UNCHANGED inputVars

\* int sphereIndexCount = 6 * sectors * (stacks - 1)
sphereIndexCount == 6 * sectors * (stacks - 1)

\* the gridSize x gridSize cube draws and the sphere draw
Draw ==
    /\ pc = "draw"
    /\ pc' = "swap"
    /\ frameLog' = Append(frameLog, "draw")
    /\ drawn' = [cubes |-> gridSize * gridSize,
                 sphereIndexCount |-> sphereIndexCount]
    /\ UNCHANGED loopVarsButPc
    /\ UNCHANGED <<view, projection, viewPos>>
    /\ UNCHANGED inputVars

\* glfwSwapBuffers(window): the end of the loop body
SwapBuffers ==
    /\ pc = "swap"
    /\ pc' = "cond"
    /\ frameLog' = Append(frameLog, "swap")
    /\ UNCHANGED loopVarsButPc
    /\ UNCHANGED <<inputVars, renderVars>>

\* faulty variant: the cleanup without glDeleteProgram
CleanupLeaksProgram ==
    /\ pc = "cleanup"
    /\ pc' = "done"
    /\ resources' = resources \ (CleanupReleases \ {"shaderProgram"})
    /\ ret' = <<0>>
    /\ UNCHANGED <<frame, events, lastEvent, keysDown, frameLog, bound, shouldClose>>
    /\ UNCHANGED <<inputVars, renderVars>>

\* the deletes after the loop, glfwTerminate and return 0
Cleanup ==
    /\ pc = "cleanup"
    /\ pc' = "done"
    /\ resources' = resources \ CleanupReleases
    /\ ret' = <<0>>
    /\ UNCHANGED <<frame, events, lastEvent, keysDown, frameLog, bound, shouldClose>>
    /\ UNCHANGED <<inputVars, renderVars>>

---------------------------------------------------------------------------
(* Shader construction: the Shader class (Shader.cpp) and main.cpp's       *)
(* createShaderProgram.  The GL driver is the environment: whether a       *)
(* compile or a link succeeds is its choice.                               *)

VARIABLES
    shPc,          \* where the shader build is
    glObjects,     \* the GL shader and program objects, indexed by their id
    glLog,         \* the GL shader, program and uniform calls issued, in order
    stderr,        \* the lines written to std::cerr
    locals,        \* vs, fs and the program id (program_ in the Shader class),
                   \* main's textureForCubes and what stbi_load returned for it
    calls          \* operations performed on the built program so far

MaxCalls == 2

shaderVars == <<shPc, glObjects, glLog, stderr, locals, calls>>

UniformSetters == {"setBool", "setInt", "setFloat", "setVec3", "setMat4"}

InitShader ==
    /\ glObjects = <<>>
    /\ glLog = <<>>
    /\ stderr = <<>>
    /\ locals = [vs |-> 0, fs |-> 0, program |-> 0,
                 textureForCubes |-> 0, data |-> "unset"]
    /\ calls = 0

\* glCreateShader, glShaderSource, glCompileShader, glGetShaderiv and, on
\* failure, glGetShaderInfoLog; ok is the driver's GL_COMPILE_STATUS
GlCompile(type, ok) ==
    /\ glObjects' = Append(glObjects,
                           [kind |-> "shader", type |-> type, compiled |-> ok,
                            deleted |-> FALSE, attached |-> {}, linked |-> "none"])
    /\ glLog' = glLog \o <<"glCreateShader", "glShaderSource", "glCompileShader",
                           "glGetShaderiv">>
                      \o (IF ok THEN <<>> ELSE <<"glGetShaderInfoLog">>)

\* glCreateProgram, two glAttachShader, glLinkProgram, glGetProgramiv and, on
\* failure, glGetProgramInfoLog; ok is the driver's GL_LINK_STATUS
GlLink(vs, fs, ok) ==
    /\ glObjects' = Append(glObjects,
                           [kind |-> "program", type |-> "program", compiled |-> FALSE,
                            deleted |-> FALSE, attached |-> {vs, fs},
                            linked |-> IF ok THEN "ok" ELSE "failed"])
    /\ glLog' = glLog \o <<"glCreateProgram", "glAttachShader", "glAttachShader",
                           "glLinkProgram", "glGetProgramiv">>
                      \o (IF ok THEN <<>> ELSE <<"glGetProgramInfoLog">>)

\* the link statuses the driver can report: a program whose shaders did not
\* all compile does not link
LinkStatuses(vsOk, fsOk) == IF vsOk /\ fsOk THEN BOOLEAN ELSE {FALSE}

LinkOutcomes(vs, fs) ==
    LinkStatuses(vs \in DOMAIN glObjects /\ glObjects[vs].compiled,
                 fs \in DOMAIN glObjects /\ glObjects[fs].compiled)

\* what main.cpp's compileShader writes to std::cerr (the driver's info log,
\* which follows on the same line, is left out)
CompileReport(ok) == IF ok THEN <<>> ELSE <<"Shader compilation error: ">>

\* what createShaderProgram writes to std::cerr after glLinkProgram
LinkReport(ok) == IF ok THEN <<>> ELSE <<"Shader program linking error: ">>

\* what loadTexture writes to std::cerr after stbi_load
TextureReport(loaded) ==
    IF loaded THEN <<>>
    ELSE <<"Failed to load texture: " \o "resources/textures/texture_08.png">>

\* glDeleteShader(vs); glDeleteShader(fs);
GlDeleteShaders(vs, fs) ==
    /\ glObjects' = [id \in DOMAIN glObjects |->
                        IF id \in {vs, fs}
                        THEN [glObjects[id] EXCEPT !.deleted = TRUE]
                        ELSE glObjects[id]]
    /\ glLog' = glLog \o <<"glDeleteShader", "glDeleteShader">>

\* faulty variant: compileShader returning 0 when the compile failed
Shader_compileShader_returns0(type, ok, dst) ==
    /\ GlCompile(type, ok)
    /\ stderr' = IF ok THEN stderr
                 ELSE Append(stderr, "ERROR: Shader compilation failed: ")
    /\ locals' = [locals EXCEPT ![dst] = IF ok THEN Len(glObjects) + 1 ELSE 0]

\* unsigned int Shader::compileShader(const char* source, GLenum type),
\* its result stored in the caller's local dst
Shader_compileShader(type, ok, dst) ==
    /\ GlCompile(type, ok)
    /\ stderr' = IF ok THEN stderr
                 ELSE Append(stderr, "ERROR: Shader compilation failed: ")
    /\ locals' = [locals EXCEPT ![dst] = Len(glObjects) + 1]

\* void Shader::linkProgram(unsigned int vs, unsigned int fs)
Shader_linkProgram(vs, fs, ok) ==
    /\ GlLink(vs, fs, ok)
    /\ stderr' = IF ok THEN stderr
                 ELSE Append(stderr, "ERROR: Shader linking failed: ")
    /\ locals' = [locals EXCEPT !.program = Len(glObjects) + 1]

\* Shader::Shader: unsigned int vs = compileShader(..., GL_VERTEX_SHADER)
ShaderCtorCompileVS ==
    /\ shPc = "Shader.vs"
    /\ shPc' = "Shader.fs"
    /\ \E ok \in BOOLEAN : Shader_compileShader("GL_VERTEX_SHADER", ok, "vs")
    /\ UNCHANGED calls

\* Shader::Shader: unsigned int fs = compileShader(..., GL_FRAGMENT_SHADER)
ShaderCtorCompileFS ==
    /\ shPc = "Shader.fs"
    /\ shPc' = "Shader.link"
    /\ \E ok \in BOOLEAN : Shader_compileShader("GL_FRAGMENT_SHADER", ok, "fs")
    /\ UNCHANGED calls

\* Shader::Shader: linkProgram(vs, fs)
ShaderCtorLink ==
    /\ shPc = "Shader.link"
    /\ shPc' = "Shader.delete"
    /\ \E ok \in LinkOutcomes(locals.vs, locals.fs) :
          Shader_linkProgram(locals.vs, locals.fs, ok)
    /\ UNCHANGED calls

\* Shader::Shader: the two glDeleteShader calls, then the constructor returns
ShaderCtorDelete ==
    /\ shPc = "Shader.delete"
    /\ shPc' = "Shader.constructed"
    /\ GlDeleteShaders(locals.vs, locals.fs)
    /\ UNCHANGED <<stderr, locals, calls>>

\* void Shader::use() const
ShaderUse ==
    /\ shPc = "Shader.constructed"
    /\ calls < MaxCalls
    /\ calls' = calls + 1
    /\ glLog' = Append(glLog, "glUseProgram")
    /\ UNCHANGED <<shPc, glObjects, stderr, locals>>

\* Shader::setBool, setInt, setFloat, setVec3, setMat4
ShaderSet(setter) ==
    /\ shPc = "Shader.constructed"
    /\ calls < MaxCalls
    /\ calls' = calls + 1
    /\ glLog' = glLog \o <<"glGetUniformLocation",
                           IF setter \in {"setBool", "setInt"} THEN "glUniform1i"
                           ELSE IF setter = "setFloat" THEN "glUniform1f"
                           ELSE IF setter = "setVec3" THEN "glUniform3fv"
                           ELSE "glUniformMatrix4fv">>
    /\ UNCHANGED <<shPc, glObjects, stderr, locals>>

\* Shader::~Shader
ShaderDtor ==
    /\ shPc = "Shader.constructed"
    /\ shPc' = "Shader.destroyed"
    /\ glObjects' = [glObjects EXCEPT ![locals.program].deleted = TRUE]
    /\ glLog' = Append(glLog, "glDeleteProgram")
    /\ UNCHANGED <<stderr, locals, calls>>

\* main.cpp: unsigned int compileShader(const char* source, GLenum type)
compileShader(type, ok, dst) ==
    /\ GlCompile(type, ok)
    /\ stderr' = stderr \o CompileReport(ok)
    /\ locals' = [locals EXCEPT ![dst] = Len(glObjects) + 1]

\* createShaderProgram: unsigned int vs = compileShader(vertexSrc, ...)
CreateProgramCompileVS ==
    /\ shPc = "main.vs"
    /\ shPc' = "main.fs"
    /\ \E ok \in BOOLEAN : compileShader("GL_VERTEX_SHADER", ok, "vs")
    /\ UNCHANGED calls

\* createShaderProgram: unsigned int fs = compileShader(fragmentSrc, ...)
CreateProgramCompileFS ==
    /\ shPc = "main.fs"
    /\ shPc' = "main.link"
    /\ \E ok \in BOOLEAN : compileShader("GL_FRAGMENT_SHADER", ok, "fs")
    /\ UNCHANGED calls

\* createShaderProgram: create, attach, link, report a link failure
CreateProgramLink ==
    /\ shPc = "main.link"
    /\ shPc' = "main.delete"
    /\ \E ok \in LinkOutcomes(locals.vs, locals.fs) :
          /\ GlLink(locals.vs, locals.fs, ok)
          /\ stderr' = stderr \o LinkReport(ok)
    /\ locals' = [locals EXCEPT !.program = Len(glObjects) + 1]
    /\ UNCHANGED calls

\* createShaderProgram: the two glDeleteShader calls and return program
CreateProgramDelete ==
    /\ shPc = "main.delete"
    /\ shPc' = "main.built"
    /\ GlDeleteShaders(locals.vs, locals.fs)
    /\ UNCHANGED <<stderr, locals, calls>>

\* loadTexture, called by main once the program is built: glGenTextures
\* names the texture; stbi_load returns the pixels, or NULL when the file
\* cannot be read, and then one line goes to std::cerr; the id is returned
\* either way.  Its texture calls are not shader or program calls and are
\* left out of glLog.
loadTexture(loaded) ==
    /\ shPc = "main.built"
    /\ shPc' = "main.loop"
    /\ locals' = [locals EXCEPT !.textureForCubes = 1,
                                !.data = IF loaded THEN "pixels" ELSE "NULL"]
    /\ stderr' = stderr \o TextureReport(loaded)
    /\ UNCHANGED <<glObjects, glLog, calls>>

\* a glUniform* call whose location argument is a glGetUniformLocation call
UniformByName(setter) == <<"glGetUniformLocation", setter>>

\* glUseProgram and the uniforms common to the frame: lightPos, lightColor,
\* viewPos, skyColor, skyStrength, the useSolidColor and solidColor
\* locations, view and projection
FrameUniformCalls ==
    <<"glUseProgram">>
    \o UniformByName("glUniform3fv") \o UniformByName("glUniform3fv")
    \o UniformByName("glUniform3fv") \o UniformByName("glUniform3fv")
    \o UniformByName("glUniform1f")
    \o <<"glGetUniformLocation", "glGetUniformLocation">>
    \o UniformByName("glUniformMatrix4fv") \o UniformByName("glUniformMatrix4fv")

\* the model uniform uploaded before each of the first n cube draws
RECURSIVE CubeUniformCalls(_)
CubeUniformCalls(n) ==
    IF n = 0 THEN <<>>
    ELSE CubeUniformCalls(n - 1) \o UniformByName("glUniformMatrix4fv")

\* the uniform calls of the draws: texture1 and useSolidColor, a model
\* matrix per cube of the grid, then the sphere's model matrix, useSolidColor
\* and solidColor
DrawUniformCalls ==
    UniformByName("glUniform1i") \o <<"glUniform1i">>
    \o CubeUniformCalls(gridSize * gridSize)
    \o UniformByName("glUniformMatrix4fv") \o <<"glUniform1i", "glUniform3fv">>

\* the render loop's glUseProgram(shaderProgram) and the frame's uniform
\* uploads, up to the first draw
MainUseProgram ==
    /\ shPc = "main.loop"
    /\ calls < MaxCalls
    /\ shPc' = "main.frame"
    /\ calls' = calls + 1
    /\ glLog' = glLog \o FrameUniformCalls
    /\ UNCHANGED <<glObjects, stderr, locals>>

\* the uniform uploads made between the draws of the frame
MainDrawUniforms ==
    /\ shPc = "main.frame"
    /\ shPc' = "main.loop"
    /\ glLog' = glLog \o DrawUniformCalls
    /\ UNCHANGED <<glObjects, stderr, locals, calls>>

\* main's glDeleteProgram(shaderProgram) after the loop
MainDeleteProgram ==
    /\ shPc = "main.loop"
    /\ shPc' = "main.deleted"
    /\ glObjects' = [glObjects EXCEPT ![locals.program].deleted = TRUE]
    /\ glLog' = Append(glLog, "glDeleteProgram")
    /\ UNCHANGED <<stderr, locals, calls>>

---------------------------------------------------------------------------
(* createSphereVAO: the UV-sphere tessellation.                            *)

VARIABLES
    spPc,          \* "vertices", "indices", "upload", "done"
    sectorCount, stackCount,
    si, sj,        \* the loop counters i and j
    k1, k2,
    vertices,      \* one entry <<x, y, z, u, v, nx, ny, nz>> per vertex
    indices,
    uploaded       \* the element counts handed to glBufferData

MaxSectors == 3
MaxStacks == 3
sphereRadius == 300

sphereVars == <<spPc, sectorCount, stackCount, si, sj, k1, k2, vertices,
                indices, uploaded>>

InitSphere ==
    /\ si = 0
    /\ sj = 0
    /\ k1 = 0
    /\ k2 = 0
    /\ vertices = <<>>
    /\ indices = <<>>
    /\ uploaded = [floats |-> 0, indices |-> 0]

\* the eight floats pushed for stack i, sector j
SphereVertexAt(radius, i, j) ==
    LET stackAngle == 900 - RoundDiv(i * 1800, stackCount)
        xy == RoundDiv(radius * Cos(stackAngle), 1000)
        y == RoundDiv(radius * Sin(stackAngle), 1000)
        sectorAngle == RoundDiv(j * 3600, sectorCount)
        x == RoundDiv(xy * Cos(sectorAngle), 1000)
        z == RoundDiv(xy * Sin(sectorAngle), 1000)
    IN  <<x, y, z,
          RoundDiv(1000 * j, sectorCount), RoundDiv(1000 * i, stackCount),
          RoundDiv(1000 * x, radius), RoundDiv(1000 * y, radius),
          RoundDiv(1000 * z, radius)>>

\* one iteration of the inner vertex loop, with both loop headers
SphereVertex ==
    /\ spPc = "vertices"
    /\ vertices' = Append(vertices, SphereVertexAt(sphereRadius, si, sj))
    /\ IF sj + 1 <= sectorCount
       THEN /\ sj' = sj + 1
            /\ UNCHANGED <<si, spPc, k1, k2>>
       ELSE IF si + 1 <= stackCount
       THEN /\ si' = si + 1
            /\ sj' = 0
            /\ UNCHANGED <<spPc, k1, k2>>
       ELSE /\ spPc' = "indices"
            /\ si' = 0
            /\ sj' = 0
            /\ k1' = 0
            /\ k2' = sectorCount + 1
    /\ UNCHANGED <<sectorCount, stackCount, indices, uploaded>>

\* faulty variant: the index loop without the two pole tests
SphereIndicesAtCapped(i, a, b) ==
    <<a, b, a + 1>> \o <<a + 1, b, b + 1>>

\* the indices pushed by one iteration of the inner index loop
SphereIndicesAt(i, a, b) ==
    (IF i # 0 THEN <<a, b, a + 1>> ELSE <<>>)
    \o (IF i # stackCount - 1 THEN <<a + 1, b, b + 1>> ELSE <<>>)

\* one iteration of the inner index loop, with both loop headers
SphereIndex ==
    /\ spPc = "indices"
    /\ indices' = indices \o SphereIndicesAt(si, k1, k2)
    /\ IF sj + 1 < sectorCount
       THEN /\ sj' = sj + 1
            /\ k1' = k1 + 1
            /\ k2' = k2 + 1
            /\ UNCHANGED <<si, spPc>>
       ELSE IF si + 1 < stackCount
       THEN /\ si' = si + 1
            /\ sj' = 0
            /\ k1' = (si + 1) * (sectorCount + 1)
            /\ k2' = (si + 1) * (sectorCount + 1) + sectorCount + 1
            /\ UNCHANGED spPc
       ELSE /\ spPc' = "upload"
            /\ si' = si + 1
            /\ sj' = sj + 1
            /\ k1' = k1 + 1
            /\ k2' = k2 + 1
    /\ UNCHANGED <<sectorCount, stackCount, vertices, uploaded>>

\* glGenVertexArrays .. glBufferData: the sizes uploaded to the VBO and EBO
SphereUpload ==
    /\ spPc = "upload"
    /\ spPc' = "done"
    /\ uploaded' = [floats |-> 8 * Len(vertices), indices |-> Len(indices)]
    /\ UNCHANGED <<sectorCount, stackCount, si, sj, k1, k2, vertices, indices>>

---------------------------------------------------------------------------
(* main's start-up, from glfwInit to the loop.  Whether GLFW initialises,  *)
(* the window is created and the GL functions load is the environment's    *)
(* choice; each failure prints one line to std::cerr and returns -1.       *)

shaderVarsButStderr == <<shPc, glObjects, glLog, locals, calls>>

\* if (!glfwInit()) { std::cerr << "Failed to init GLFW\n"; return -1; }
MainGlfwInit(ok) ==
    /\ pc = "glfwInit"
    /\ IF ok
       THEN /\ pc' = "createWindow"
            /\ resources' = resources \cup {"glfw"}
            /\ UNCHANGED <<stderr, ret>>
       ELSE /\ pc' = "done"
            /\ stderr' = Append(stderr, "Failed to init GLFW")
            /\ ret' = <<-1>>
            /\ UNCHANGED resources
    /\ UNCHANGED <<frame, events, lastEvent, keysDown, frameLog, bound, shouldClose>>
    /\ UNCHANGED <<inputVars, renderVars>>

\* glfwCreateWindow; on failure the message, glfwTerminate and return -1
MainCreateWindow(ok) ==
    /\ pc = "createWindow"
    /\ IF ok
       THEN /\ pc' = "gladLoad"
            /\ UNCHANGED <<stderr, ret, resources>>
       ELSE /\ pc' = "done"
            /\ stderr' = Append(stderr, "Failed to create window")
            /\ resources' = resources \ {"glfw"}
            /\ ret' = <<-1>>
    /\ UNCHANGED <<frame, events, lastEvent, keysDown, frameLog, bound, shouldClose>>
    /\ UNCHANGED <<inputVars, renderVars>>

\* glfwMakeContextCurrent and gladLoadGLLoader; on failure the message and
\* return -1, with no glfwTerminate
MainLoadGL(ok) ==
    /\ pc = "gladLoad"
    /\ IF ok
       THEN /\ pc' = "setup"
            /\ UNCHANGED <<stderr, ret>>
       ELSE /\ pc' = "done"
            /\ stderr' = Append(stderr, "Failed to init GLAD")
            /\ ret' = <<-1>>
    /\ UNCHANGED resources
    /\ UNCHANGED <<frame, events, lastEvent, keysDown, frameLog, bound, shouldClose>>
    /\ UNCHANGED <<inputVars, renderVars>>

\* the rest of the set-up: GL state and callbacks, the shader program, the
\* cube's objects, the texture, the sphere's objects and the player's
\* position.  createShaderProgram and loadTexture run here: vsOk, fsOk and
\* linkOk are the statuses the driver reports and loaded is whether stbi_load
\* returned the pixels; each failure prints its line to std::cerr and the
\* set-up goes on.  The GL objects and calls of the shader build and the
\* sphere's vertices are followed step by step under SpecShader and
\* SpecSphere.
MainSetup(vsOk, fsOk, linkOk, loaded) ==
    /\ pc = "setup"
    /\ pc' = "cond"
    /\ resources' = AllResources
    /\ stderr' = stderr \o CompileReport(vsOk) \o CompileReport(fsOk)
                        \o LinkReport(linkOk) \o TextureReport(loaded)
    /\ playerPos' = Vec3(3000000 - gridSize * 500000,
                         500000 + 1000 * sphereRadius,
                         2000000 - gridSize * 500000)
    /\ UNCHANGED <<frame, events, lastEvent, keysDown, frameLog, bound,
                   shouldClose, ret>>
    /\ UNCHANGED <<cameraPos, zoomLevel, isFreeCamera, cPressed, freeCamPos,
                   cameraFront, cameraUp, yaw, pitch, lastX, lastY, firstMouse>>
    /\ UNCHANGED renderVars

---------------------------------------------------------------------------
(* Specifications.                                                         *)

vars == <<mainVars, cam, shaderVars, sphereVars>>

ShaderIdle == shPc = "idle" /\ InitShader

SphereIdle == spPc = "idle" /\ sectorCount = sectors /\ stackCount = stacks /\ InitSphere

\* the Camera object is toggled when main's mode flips
CamToggled == IF isFreeCamera' # isFreeCamera THEN toggleMode(cam) ELSE cam

\* the Camera object's per-frame update, as a caller of the class makes it
CamUpdated(deltaTime) ==
    IF cam.mode_ = "Free"
    THEN updateFree(cam, deltaTime, "UP" \in keysDown, "DOWN" \in keysDown,
                    "LEFT" \in keysDown, "RIGHT" \in keysDown)
    ELSE updateIsometric(cam)

\* main's loop with every key, the cursor and the scroll wheel as inputs
Init ==
    /\ InitMain
    /\ bound = [frames |-> MaxFrames, events |-> MaxEvents]
    /\ ShaderIdle
    /\ SphereIdle

Next ==
    \/ (\E ok \in BOOLEAN : MainGlfwInit(ok))
          /\ UNCHANGED <<cam, shaderVarsButStderr, sphereVars>>
    \/ (\E ok \in BOOLEAN : MainCreateWindow(ok))
          /\ UNCHANGED <<cam, shaderVarsButStderr, sphereVars>>
    \/ (\E ok \in BOOLEAN : MainLoadGL(ok))
          /\ UNCHANGED <<cam, shaderVarsButStderr, sphereVars>>
    \/ (\E vsOk \in BOOLEAN, fsOk \in BOOLEAN, loaded \in BOOLEAN :
           \E linkOk \in LinkStatuses(vsOk, fsOk) :
              MainSetup(vsOk, fsOk, linkOk, loaded))
          /\ UNCHANGED <<cam, shaderVarsButStderr, sphereVars>>
    \/ LoopCond /\ UNCHANGED <<cam, shaderVars, sphereVars>>
    \/ \E k \in AllKeys : PollKey(k) /\ UNCHANGED <<cam, shaderVars, sphereVars>>
    \/ \E xpos \in MouseXs, ypos \in MouseYs :
          /\ PollCursor(xpos, ypos)
          /\ cam' = handleMouse(cam, xpos, ypos)
          /\ UNCHANGED <<shaderVars, sphereVars>>
    \/ \E yoffset \in ScrollOffsets :
          PollScroll(yoffset) /\ UNCHANGED <<cam, shaderVars, sphereVars>>
    \/ PollEventsReturn /\ UNCHANGED <<cam, shaderVars, sphereVars>>
    \/ ToggleCheck /\ cam' = CamToggled /\ UNCHANGED <<shaderVars, sphereVars>>
    \/ \E dt \in DeltaTimes :
          Movement /\ cam' = CamUpdated(dt) /\ UNCHANGED <<shaderVars, sphereVars>>
    \/ EscapeCheck /\ UNCHANGED <<cam, shaderVars, sphereVars>>
    \/ Render /\ UNCHANGED <<cam, shaderVars, sphereVars>>
    \/ Draw /\ UNCHANGED <<cam, shaderVars, sphereVars>>
    \/ SwapBuffers /\ UNCHANGED <<cam, shaderVars, sphereVars>>
    \/ Cleanup /\ UNCHANGED <<cam, shaderVars, sphereVars>>

Spec == Init /\ [][Next]_vars

\* main's loop and the Camera object under toggles and cursor events only
InitPair ==
    /\ InitMain
    /\ bound = [frames |-> PairFrames, events |-> PairEvents]
    /\ ShaderIdle
    /\ SphereIdle

NextPair ==
    \/ (\E ok \in BOOLEAN : MainGlfwInit(ok))
          /\ UNCHANGED <<cam, shaderVarsButStderr, sphereVars>>
    \/ (\E ok \in BOOLEAN : MainCreateWindow(ok))
          /\ UNCHANGED <<cam, shaderVarsButStderr, sphereVars>>
    \/ (\E ok \in BOOLEAN : MainLoadGL(ok))
          /\ UNCHANGED <<cam, shaderVarsButStderr, sphereVars>>
    \/ (\E vsOk \in BOOLEAN, fsOk \in BOOLEAN, loaded \in BOOLEAN :
           \E linkOk \in LinkStatuses(vsOk, fsOk) :
              MainSetup(vsOk, fsOk, linkOk, loaded))
          /\ UNCHANGED <<cam, shaderVarsButStderr, sphereVars>>
    \/ LoopCond /\ UNCHANGED <<cam, shaderVars, sphereVars>>
    \/ \E k \in PairKeys : PollKey(k) /\ UNCHANGED <<cam, shaderVars, sphereVars>>
    \/ \E xpos \in MouseXs, ypos \in MouseYs :
          /\ PollCursor(xpos, ypos)
          /\ cam' = handleMouse(cam, xpos, ypos)
          /\ UNCHANGED <<shaderVars, sphereVars>>
    \/ PollEventsReturn /\ UNCHANGED <<cam, shaderVars, sphereVars>>
    \/ ToggleCheck /\ cam' = CamToggled /\ UNCHANGED <<shaderVars, sphereVars>>
    \/ \E dt \in DeltaTimes :
          Movement /\ cam' = CamUpdated(dt) /\ UNCHANGED <<shaderVars, sphereVars>>
    \/ EscapeCheck /\ UNCHANGED <<cam, shaderVars, sphereVars>>
    \/ Render /\ UNCHANGED <<cam, shaderVars, sphereVars>>
    \/ Draw /\ UNCHANGED <<cam, shaderVars, sphereVars>>
    \/ SwapBuffers /\ UNCHANGED <<cam, shaderVars, sphereVars>>
    \/ Cleanup /\ UNCHANGED <<cam, shaderVars, sphereVars>>

SpecPair == InitPair /\ [][NextPair]_vars

\* main's loop and the Camera object under every key and the cursor
InitMove ==
    /\ InitMain
    /\ bound = [frames |-> MoveFrames, events |-> MoveEvents]
    /\ ShaderIdle
    /\ SphereIdle

NextMove ==
    \/ (\E ok \in BOOLEAN : MainGlfwInit(ok))
          /\ UNCHANGED <<cam, shaderVarsButStderr, sphereVars>>
    \/ (\E ok \in BOOLEAN : MainCreateWindow(ok))
          /\ UNCHANGED <<cam, shaderVarsButStderr, sphereVars>>
    \/ (\E ok \in BOOLEAN : MainLoadGL(ok))
          /\ UNCHANGED <<cam, shaderVarsButStderr, sphereVars>>
    \/ (\E vsOk \in BOOLEAN, fsOk \in BOOLEAN, loaded \in BOOLEAN :
           \E linkOk \in LinkStatuses(vsOk, fsOk) :
              MainSetup(vsOk, fsOk, linkOk, loaded))
          /\ UNCHANGED <<cam, shaderVarsButStderr, sphereVars>>
    \/ LoopCond /\ UNCHANGED <<cam, shaderVars, sphereVars>>
    \/ \E k \in AllKeys : PollKey(k) /\ UNCHANGED <<cam, shaderVars, sphereVars>>
    \/ \E xpos \in MouseXs, ypos \in MouseYs :
          /\ PollCursor(xpos, ypos)
          /\ cam' = handleMouse(cam, xpos, ypos)
          /\ UNCHANGED <<shaderVars, sphereVars>>
    \/ PollEventsReturn /\ UNCHANGED <<cam, shaderVars, sphereVars>>
    \/ ToggleCheck /\ cam' = CamToggled /\ UNCHANGED <<shaderVars, sphereVars>>
    \/ \E dt \in DeltaTimes :
          Movement /\ cam' = CamUpdated(dt) /\ UNCHANGED <<shaderVars, sphereVars>>
    \/ EscapeCheck /\ UNCHANGED <<cam, shaderVars, sphereVars>>
    \/ Render /\ UNCHANGED <<cam, shaderVars, sphereVars>>
    \/ Draw /\ UNCHANGED <<cam, shaderVars, sphereVars>>
    \/ SwapBuffers /\ UNCHANGED <<cam, shaderVars, sphereVars>>
    \/ Cleanup /\ UNCHANGED <<cam, shaderVars, sphereVars>>

SpecMove == InitMove /\ [][NextMove]_vars

\* main's loop and the Camera object under C, one arrow key and the cursor
InitIso ==
    /\ InitMain
    /\ bound = [frames |-> IsoFrames, events |-> IsoEvents]
    /\ ShaderIdle
    /\ SphereIdle

NextIso ==
    \/ (\E ok \in BOOLEAN : MainGlfwInit(ok))
          /\ UNCHANGED <<cam, shaderVarsButStderr, sphereVars>>
    \/ (\E ok \in BOOLEAN : MainCreateWindow(ok))
          /\ UNCHANGED <<cam, shaderVarsButStderr, sphereVars>>
    \/ (\E ok \in BOOLEAN : MainLoadGL(ok))
          /\ UNCHANGED <<cam, shaderVarsButStderr, sphereVars>>
    \/ (\E vsOk \in BOOLEAN, fsOk \in BOOLEAN, loaded \in BOOLEAN :
           \E linkOk \in LinkStatuses(vsOk, fsOk) :
              MainSetup(vsOk, fsOk, linkOk, loaded))
          /\ UNCHANGED <<cam, shaderVarsButStderr, sphereVars>>
    \/ LoopCond /\ UNCHANGED <<cam, shaderVars, sphereVars>>
    \/ \E k \in IsoKeys : PollKey(k) /\ UNCHANGED <<cam, shaderVars, sphereVars>>
    \/ \E xpos \in MouseXs, ypos \in MouseYs :
          /\ PollCursor(xpos, ypos)
          /\ cam' = handleMouse(cam, xpos, ypos)
          /\ UNCHANGED <<shaderVars, sphereVars>>
    \/ PollEventsReturn /\ UNCHANGED <<cam, shaderVars, sphereVars>>
    \/ ToggleCheck /\ cam' = CamToggled /\ UNCHANGED <<shaderVars, sphereVars>>
    \/ \E dt \in DeltaTimes :
          Movement /\ cam' = CamUpdated(dt) /\ UNCHANGED <<shaderVars, sphereVars>>
    \/ EscapeCheck /\ UNCHANGED <<cam, shaderVars, sphereVars>>
    \/ Render /\ UNCHANGED <<cam, shaderVars, sphereVars>>
    \/ Draw /\ UNCHANGED <<cam, shaderVars, sphereVars>>
    \/ SwapBuffers /\ UNCHANGED <<cam, shaderVars, sphereVars>>
    \/ Cleanup /\ UNCHANGED <<cam, shaderVars, sphereVars>>

SpecIso == InitIso /\ [][NextIso]_vars

\* a shader build, by the Shader class or by main's createShaderProgram
InitShaderBuild ==
    /\ InitMain
    /\ bound = [frames |-> 0, events |-> 0]
    /\ shPc \in {"Shader.vs", "main.vs"}
    /\ InitShader
    /\ SphereIdle

NextShader ==
    \/ ShaderCtorCompileVS /\ UNCHANGED <<mainVars, cam, sphereVars>>
    \/ ShaderCtorCompileFS /\ UNCHANGED <<mainVars, cam, sphereVars>>
    \/ ShaderCtorLink /\ UNCHANGED <<mainVars, cam, sphereVars>>
    \/ ShaderCtorDelete /\ UNCHANGED <<mainVars, cam, sphereVars>>
    \/ ShaderUse /\ UNCHANGED <<mainVars, cam, sphereVars>>
    \/ \E setter \in UniformSetters :
          ShaderSet(setter) /\ UNCHANGED <<mainVars, cam, sphereVars>>
    \/ ShaderDtor /\ UNCHANGED <<mainVars, cam, sphereVars>>
    \/ CreateProgramCompileVS /\ UNCHANGED <<mainVars, cam, sphereVars>>
    \/ CreateProgramCompileFS /\ UNCHANGED <<mainVars, cam, sphereVars>>
    \/ CreateProgramLink /\ UNCHANGED <<mainVars, cam, sphereVars>>
    \/ CreateProgramDelete /\ UNCHANGED <<mainVars, cam, sphereVars>>
    \/ (\E loaded \in BOOLEAN : loadTexture(loaded))
          /\ UNCHANGED <<mainVars, cam, sphereVars>>
    \/ MainUseProgram /\ UNCHANGED <<mainVars, cam, sphereVars>>
    \/ MainDrawUniforms /\ UNCHANGED <<mainVars, cam, sphereVars>>
    \/ MainDeleteProgram /\ UNCHANGED <<mainVars, cam, sphereVars>>

SpecShader == InitShaderBuild /\ [][NextShader]_vars

\* createSphereVAO for every small sectorCount and stackCount and for main's call
InitSphereBuild ==
    /\ InitMain
    /\ bound = [frames |-> 0, events |-> 0]
    /\ ShaderIdle
    /\ spPc = "vertices"
    /\ \E counts \in ((1..MaxSectors) \X (1..MaxStacks)) \cup {<<sectors, stacks>>} :
          /\ sectorCount = counts[1]
          /\ stackCount = counts[2]
    /\ InitSphere

NextSphere ==
    \/ SphereVertex /\ UNCHANGED <<mainVars, cam, shaderVars>>
    \/ SphereIndex /\ UNCHANGED <<mainVars, cam, shaderVars>>
    \/ SphereUpload /\ UNCHANGED <<mainVars, cam, shaderVars>>

SpecSphere == InitSphereBuild /\ [][NextSphere]_vars

---------------------------------------------------------------------------
(* The claims.                                                             *)

\* a cursor-position event is being delivered to (x, y) in this step
CursorEvent == events' = events + 1 /\ lastEvent'.kind = "cursor"

IsoEye == Vec3(2000000, 2000000, 2000000)

InitialFreeCamPos == Vec3(2000000, 2000000, 2000000)

Clamp89(p) == IF p > 890 THEN 890 ELSE IF p < -890 THEN -890 ELSE p

\* C1: the camera mode flips exactly once per press of C: it flips in the
\* frame that polls C pressed while cPressed is false (and only there), the
\* flip sets cPressed, and cPressed is cleared only by a frame that polls C
\* released, so no second flip happens while C is held.
C1_ToggleOncePerPress ==
    [][/\ (isFreeCamera' # isFreeCamera
              => pc = "toggle" /\ "C" \in keysDown /\ ~cPressed /\ cPressed')
       /\ (pc = "toggle" /\ "C" \in keysDown /\ ~cPressed
              => isFreeCamera' = ~isFreeCamera)
       /\ (pc = "toggle" /\ "C" \in keysDown /\ cPressed
              => isFreeCamera' = isFreeCamera /\ cPressed')
       /\ (cPressed /\ ~cPressed' => pc = "toggle" /\ "C" \notin keysDown)
      ]_vars

\* the mode is back to Isometric by a second flip, which took a release and
\* a new press of C
C1_Witness ==
    /\ pc = "move"
    /\ frame >= 3
    /\ ~isFreeCamera
    /\ cPressed
    /\ "C" \in keysDown

\* C2: a cursor-position event received while the mode is Isometric leaves
\* yaw, pitch, cameraFront, lastX, lastY and firstMouse unchanged, in main's
\* mouse_callback and in Camera::handleMouse.
C2_IsometricIgnoresMouse ==
    [][CursorEvent =>
          /\ (~isFreeCamera =>
                 UNCHANGED <<yaw, pitch, cameraFront, lastX, lastY, firstMouse>>)
          /\ (cam.mode_ = "Isometric" =>
                 /\ cam'.yaw_ = cam.yaw_
                 /\ cam'.pitch_ = cam.pitch_
                 /\ cam'.cameraFront_ = cam.cameraFront_
                 /\ cam'.lastX_ = cam.lastX_
                 /\ cam'.lastY_ = cam.lastY_
                 /\ cam'.firstMouse_ = cam.firstMouse_)
      ]_vars

\* an event at x = 400 was just received in Isometric mode, after a stay in
\* Free mode had left lastX at 750: the event was ignored
C2_Witness ==
    /\ pc = "poll"
    /\ lastEvent.kind = "cursor"
    /\ lastEvent.x = 400
    /\ ~isFreeCamera
    /\ cam.mode_ = "Isometric"
    /\ lastX = 750
    /\ cam.lastX_ = 750

\* C3: the isometric eye stays (2,2,2), and in Isometric mode the view is
\* lookAt((2,2,2), origin, (0,1,0)) whatever yaw, pitch, cameraFront and
\* freeCamPos are, in main and in the Camera class.
C3_IsometricEyeFixed ==
    /\ cameraPos = IsoEye
    /\ cam.isoCamPos_ = IsoEye
    /\ (cam.mode_ = "Isometric" => getViewMatrix(cam) = LookAt(IsoEye, Origin, WorldUp))
    /\ (~isFreeCamera => MainView = LookAt(IsoEye, Origin, WorldUp))
    /\ (~isFreeCamera /\ pc \in {"draw", "swap"} =>
           view = LookAt(IsoEye, Origin, WorldUp))

\* an isometric frame is rendered after the free camera has been moved and
\* turned: yaw, pitch, cameraFront and freeCamPos all differ from their
\* initial values
C3_Witness ==
    /\ pc = "draw"
    /\ ~isFreeCamera
    /\ cam.mode_ = "Isometric"
    /\ freeCamPos # InitialFreeCamPos
    /\ cam.freeCamPos_ # InitialFreeCamPos
    /\ yaw # -900
    /\ pitch # 0
    /\ cameraFront # Vec3(0, 0, -1000000)
    /\ cam.cameraFront_ # Vec3(0, 0, -1000000)

ArrowKeys == {"UP", "DOWN", "LEFT", "RIGHT"}

\* C4: in every frame either the player or the free camera is updated, never
\* both: in Isometric mode W/S/A/D move playerPos by playerMoveSpeed (W: z-,
\* S: z+, A: x-, D: x+) and freeCamPos is unchanged; in Free mode the arrow
\* keys move freeCamPos and playerPos is unchanged; nothing else moves them
\* once the set-up has placed the player at (-2, 0.8, -3).
C4_PlayerOrCamera ==
    [][/\ (pc \notin {"move", "setup"} => UNCHANGED <<playerPos, freeCamPos>>)
       /\ (pc = "setup" =>
              /\ freeCamPos' = freeCamPos
              /\ playerPos' = Vec3(-2000000, 800000, -3000000))
       /\ (pc = "move" /\ ~isFreeCamera =>
              /\ freeCamPos' = freeCamPos
              /\ playerPos'.x = playerPos.x
                     - (IF "A" \in keysDown THEN playerMoveSpeed ELSE 0)
                     + (IF "D" \in keysDown THEN playerMoveSpeed ELSE 0)
              /\ playerPos'.y = playerPos.y
              /\ playerPos'.z = playerPos.z
                     - (IF "W" \in keysDown THEN playerMoveSpeed ELSE 0)
                     + (IF "S" \in keysDown THEN playerMoveSpeed ELSE 0))
       /\ (pc = "move" /\ isFreeCamera =>
              /\ playerPos' = playerPos
              /\ (freeCamPos' # freeCamPos => keysDown \cap ArrowKeys # {})
              /\ (Cardinality(keysDown \cap ArrowKeys) = 1 => freeCamPos' # freeCamPos)
              /\ (keysDown \cap ArrowKeys = {"UP"} =>
                     freeCamPos' = VAdd(freeCamPos, VScale(freeCamSpeed, cameraFront))))
      ]_vars

\* a Free-mode frame with W and UP both down moved the camera, not the player
C4_Witness ==
    /\ pc = "escape"
    /\ isFreeCamera
    /\ {"W", "UP"} \subseteq keysDown
    /\ freeCamPos # InitialFreeCamPos
    /\ playerPos = Vec3(-2000000, 800000, -3000000)

\* the stages the loop body has completed when main is at pc
StagesBefore(p) ==
    IF p = "poll" THEN <<>>
    ELSE IF p = "toggle" THEN <<"poll">>
    ELSE IF p = "move" THEN <<"poll", "toggle">>
    ELSE IF p = "escape" THEN <<"poll", "toggle", "move">>
    ELSE IF p = "render" THEN <<"poll", "toggle", "move", "escape">>
    ELSE IF p = "draw" THEN <<"poll", "toggle", "move", "escape", "render">>
    ELSE IF p = "swap" THEN <<"poll", "toggle", "move", "escape", "render", "draw">>
    ELSE <<"poll", "toggle", "move", "escape", "render", "draw", "swap">>

\* C5: every iteration performs event pump, C-toggle check, movement, Escape
\* check, view/projection/uniform upload, draw calls and buffer swap exactly
\* once and in this order, and callbacks run only inside the event pump.
C5_StagesInOrder ==
    /\ [](/\ (frame = 0 => frameLog = <<>>)
          /\ (frame > 0 => frameLog = StagesBefore(pc)))
    /\ [][/\ (events' # events => pc = "poll" /\ pc' = "poll")
          /\ (<<yaw, pitch, lastX, lastY, cameraFront, zoomLevel>>'
                 # <<yaw, pitch, lastX, lastY, cameraFront, zoomLevel>>
                 => pc = "poll" /\ pc' = "poll")
          /\ (frame' # frame => pc = "cond" /\ pc' = "poll")
         ]_vars

\* two complete iterations have run, with input events delivered
C5_Witness ==
    /\ pc = "cond"
    /\ frame = 2
    /\ events >= 2
    /\ frameLog = StageOrder
    /\ lastEvent.kind = "scroll"

NumFailures ==
    Cardinality({id \in DOMAIN glObjects :
                    \/ glObjects[id].kind = "shader" /\ ~glObjects[id].compiled
                    \/ glObjects[id].kind = "program" /\ glObjects[id].linked = "failed"})

\* 1 when main's texture failed to load
TextureFailures == IF locals.data = "NULL" THEN 1 ELSE 0

IsShaderId(id) == id \in DOMAIN glObjects /\ glObjects[id].kind = "shader"

\* C6: a compile or link failure only prints to stderr: compileShader still
\* returns the shader id, the program is created, attached and linked, both
\* shaders are deleted, construction completes, and the later operations
\* (use, set*, main's texture load and render loop) run whatever the outcome
\* was; std::cerr holds one line per failure.
C6_FailureOnlyPrinted ==
    /\ (shPc \in {"Shader.fs", "main.fs"} => IsShaderId(locals.vs))
    /\ (shPc \in {"Shader.link", "main.link"} =>
           IsShaderId(locals.vs) /\ IsShaderId(locals.fs) /\ locals.vs # locals.fs)
    /\ (shPc \in {"Shader.delete", "main.delete", "Shader.constructed", "main.built",
                 "main.loop", "main.frame"} =>
           /\ locals.program \in DOMAIN glObjects
           /\ glObjects[locals.program].kind = "program"
           /\ glObjects[locals.program].attached = {locals.vs, locals.fs}
           /\ glObjects[locals.program].linked \in {"ok", "failed"})
    /\ (shPc \in {"Shader.constructed", "main.built", "main.loop", "main.frame"} =>
           /\ glObjects[locals.vs].deleted
           /\ glObjects[locals.fs].deleted
           /\ Len(glObjects) = 3)
    /\ (shPc \notin {"idle"} => Len(stderr) = NumFailures + TextureFailures)
    /\ (shPc = "Shader.constructed" /\ calls < MaxCalls =>
           ENABLED ShaderUse /\ ENABLED ShaderSet("setMat4"))
    /\ (shPc = "main.built" =>
           ENABLED loadTexture(TRUE) /\ ENABLED loadTexture(FALSE))
    /\ (shPc = "main.loop" /\ calls < MaxCalls => ENABLED MainUseProgram)
    /\ (shPc = "main.frame" => ENABLED MainDrawUniforms)

\* both compiles and the link failed, the Shader object was still built and
\* has been used
C6_Witness ==
    /\ shPc = "Shader.constructed"
    /\ Len(stderr) = 3
    /\ calls >= 1
    /\ glObjects[locals.vs].deleted
    /\ glObjects[locals.program].linked = "failed"

\* C7: for sectorCount, stackCount >= 1 createSphereVAO emits
\* (stackCount+1)*(sectorCount+1) vertices and 6*sectorCount*(stackCount-1)
\* indices (the count main draws), each index within the vertices.
C7_SphereCounts ==
    /\ (spPc \in {"upload", "done"} =>
           /\ Len(vertices) = (stackCount + 1) * (sectorCount + 1)
           /\ Len(indices) = 6 * sectorCount * (stackCount - 1)
           /\ \A n \in 1..Len(indices) :
                 indices[n] >= 0 /\ indices[n] < Len(vertices))
    /\ (spPc = "done" =>
           /\ uploaded.indices = 6 * sectorCount * (stackCount - 1)
           /\ uploaded.floats = 8 * (stackCount + 1) * (sectorCount + 1))
    /\ (spPc = "done" /\ sectorCount = sectors /\ stackCount = stacks =>
           uploaded.indices = sphereIndexCount)

\* main's 16 x 16 sphere is built
C7_Witness ==
    /\ spPc = "done"
    /\ sectorCount = sectors
    /\ stackCount = stacks
    /\ Len(vertices) = 289
    /\ Len(indices) = 1440

\* C8: fed the same toggles and cursor events, the Camera class and main's
\* inline camera agree at every step on the mode, yaw, pitch, firstMouse,
\* lastX, lastY and on the view they select.
C8_CameraMatchesMain ==
    /\ (cam.mode_ = "Free") = isFreeCamera
    /\ cam.yaw_ = yaw
    /\ cam.pitch_ = pitch
    /\ cam.firstMouse_ = firstMouse
    /\ cam.lastX_ = lastX
    /\ cam.lastY_ = lastY
    /\ cam.isoCamPos_ = cameraPos
    /\ cam.freeCamPos_ = freeCamPos
    /\ cam.cameraFront_ = cameraFront
    /\ getViewMatrix(cam) = MainView

\* both are back in Isometric mode after mouse-look in Free mode turned them
C8_Witness ==
    /\ ~isFreeCamera
    /\ cam.mode_ = "Isometric"
    /\ yaw # -900
    /\ pitch # 0
    /\ firstMouse
    /\ frame >= 3

\* C9: -89 <= pitch <= 89 degrees in every reachable state, in main and in
\* the Camera class; yaw is not clamped: a cursor event in Free mode adds the
\* whole offset to it.
C9_PitchConstrained ==
    /\ [](/\ pitch >= -890 /\ pitch <= 890
          /\ cam.pitch_ >= -890 /\ cam.pitch_ <= 890)
    /\ [][CursorEvent /\ isFreeCamera =>
             /\ yaw' = yaw + mouseSensitivity
                             * (lastEvent'.x - (IF firstMouse THEN lastEvent'.x ELSE lastX))
             /\ cam'.yaw_ = yaw'
         ]_vars

\* the clamp has acted on pitch while yaw has left [-89, 89] further
C9_Witness ==
    /\ isFreeCamera
    /\ pitch = -890
    /\ cam.pitch_ = -890
    /\ yaw = -1250
    /\ lastY = 1250

\* C10 as stated: every toggle sets firstMouse; the first cursor event in Free
\* mode after a toggle leaves yaw and pitch unchanged, records the position
\* and clears firstMouse; a later event changes yaw and pitch by exactly
\* sensitivity times the delta from the previous event.
C10_Original ==
    [][/\ (isFreeCamera' # isFreeCamera => firstMouse' /\ cam'.firstMouse_)
       /\ (CursorEvent /\ isFreeCamera =>
              /\ lastX' = lastEvent'.x /\ lastY' = lastEvent'.y /\ ~firstMouse'
              /\ IF firstMouse
                 THEN yaw' = yaw /\ pitch' = pitch
                 ELSE /\ yaw' = yaw + mouseSensitivity * (lastEvent'.x - lastX)
                      /\ pitch' = pitch + mouseSensitivity * (lastY - lastEvent'.y))
      ]_vars

\* C10, amended: every toggle sets firstMouse; the first cursor event in Free
\* mode after a toggle leaves yaw and pitch unchanged, records the position
\* and clears firstMouse; a later event adds sensitivity times the delta from
\* the previous event to yaw, and to pitch, which is then clamped to
\* [-89, 89]; in main and in the Camera class.
C10_NoJumpAfterToggle ==
    [][/\ (isFreeCamera' # isFreeCamera => firstMouse' /\ cam'.firstMouse_)
       /\ (CursorEvent /\ isFreeCamera =>
              /\ lastX' = lastEvent'.x /\ lastY' = lastEvent'.y /\ ~firstMouse'
              /\ IF firstMouse
                 THEN yaw' = yaw /\ pitch' = pitch
                 ELSE /\ yaw' = yaw + mouseSensitivity * (lastEvent'.x - lastX)
                      /\ pitch' = Clamp89(pitch + mouseSensitivity
                                                      * (lastY - lastEvent'.y)))
       /\ (CursorEvent /\ cam.mode_ = "Free" =>
              /\ cam'.lastX_ = lastEvent'.x /\ cam'.lastY_ = lastEvent'.y
              /\ ~cam'.firstMouse_
              /\ IF cam.firstMouse_
                 THEN cam'.yaw_ = cam.yaw_ /\ cam'.pitch_ = cam.pitch_
                 ELSE /\ cam'.yaw_ = cam.yaw_
                             + cam.mouseSensitivity_ * (lastEvent'.x - cam.lastX_)
                      /\ cam'.pitch_ = Clamp89(cam.pitch_ + cam.mouseSensitivity_
                                                      * (cam.lastY_ - lastEvent'.y)))
      ]_vars

\* in Free mode a first event at (400, 1250) left yaw and pitch alone, and
\* the next one at (750, 300) turned yaw by 35 degrees and ran pitch into
\* the clamp
C10_Witness ==
    /\ isFreeCamera
    /\ ~firstMouse
    /\ ~cam.firstMouse_
    /\ lastEvent = [kind |-> "cursor", x |-> 750, y |-> 300]
    /\ yaw = -550
    /\ pitch = 890
    /\ cam.yaw_ = -550
    /\ cam.pitch_ = 890
    /\ lastX = 750
    /\ lastY = 300

\* a step of glfwPollEvents that delivered a scroll event
ScrollEvent == events' = events + 1 /\ lastEvent'.kind = "scroll"

\* the zoom floor, 0.1 in thousandths
ZoomFloor == 100

\* C11: zoomLevel starts at 10.0 and is never below 0.1, in either camera
\* mode; a scroll event sets it to zoomLevel - 0.1 * yoffset, raised to 0.1
\* when that is lower, and nothing else changes it; no bound from above is
\* applied; the orthographic box a frame renders with is
\* [-zoomLevel, zoomLevel] in both directions and so is never empty or
\* inverted.
C11_ZoomFloor ==
    /\ zoomLevel = 10000
    /\ [](zoomLevel >= ZoomFloor)
    /\ [](pc \in {"draw", "swap"} =>
              /\ projection = Ortho(zoomLevel)
              /\ projection.left < projection.right
              /\ projection.bottom < projection.top)
    /\ [][IF ScrollEvent
          THEN LET z == zoomLevel - 100 * lastEvent'.y
               IN  zoomLevel' = IF z >= ZoomFloor THEN z ELSE ZoomFloor
          ELSE zoomLevel' = zoomLevel]_vars

\* in free-camera mode, as the third event, a scroll of 200 notches ran the
\* zoom into the floor, and the frame is being drawn with the box [-0.1, 0.1]
C11_Witness ==
    /\ isFreeCamera
    /\ lastEvent = [kind |-> "scroll", x |-> 0, y |-> 200]
    /\ events = 3
    /\ zoomLevel = ZoomFloor
    /\ pc = "draw"
    /\ projection.left = -100
    /\ projection.right = 100

\* where main goes next from each position once the should-close flag is set
AfterClose ==
    [p \in {"render", "draw", "swap", "cond", "cleanup"} |->
        CASE p = "render"  -> "draw"
          [] p = "draw"    -> "swap"
          [] p = "swap"    -> "cond"
          [] p = "cond"    -> "cleanup"
          [] p = "cleanup" -> "done"]

\* the steps of main that remain once the flag is set
CloseSteps == Render \/ Draw \/ SwapBuffers \/ LoopCond \/ Cleanup

\* C12: the should-close flag starts clear, is set by the Escape check of a
\* frame that finds the key down and by nothing else, and is never cleared.
\* Once it is set no frame is started: main goes on through the render, the
\* draws and the buffer swap of the same frame, leaves the loop at its
\* condition, runs the cleanup and returns, and it can always take the next
\* of these steps, whatever number of frames and events came before.
\* With the flag set, everything main holds is held until the cleanup, and
\* after it the cube and sphere VAOs and buffers and the shader program are
\* deleted, GLFW is terminated and main has returned 0; the cube texture,
\* which the cleanup does not name, is all that stays undeleted.
C12_EscapeCloses ==
    /\ ~shouldClose
    /\ [](shouldClose =>
              /\ pc \in DOMAIN AfterClose \cup {"done"}
              /\ pc \in {"cond", "cleanup", "done"} =>
                     /\ frameLog = StageOrder
                     /\ drawn.cubes = gridSize * gridSize
              /\ pc # "done" => ENABLED CloseSteps)
    /\ [](shouldClose =>
              IF pc = "done"
              THEN /\ resources \cap CleanupReleases = {}
                   /\ resources = {"textureForCubes"}
                   /\ ret = <<0>>
              ELSE resources = AllResources /\ ret = <<>>)
    /\ [][/\ (pc = "escape" /\ "ESCAPE" \in keysDown => shouldClose')
          /\ (shouldClose' /\ ~shouldClose =>
                  pc = "escape" /\ "ESCAPE" \in keysDown)
          /\ (shouldClose =>
                  /\ shouldClose'
                  /\ frame' = frame
                  /\ pc' = AfterClose[pc])
         ]_vars

\* Escape went down in the second frame's poll; that frame was rendered,
\* drawn and swapped, and main has since left the loop, released all but the
\* texture and returned 0
C12_Witness ==
    /\ pc = "done"
    /\ shouldClose
    /\ "ESCAPE" \in keysDown
    /\ frame = 2
    /\ frameLog = StageOrder
    /\ drawn.cubes = gridSize * gridSize
    /\ resources = {"textureForCubes"}
    /\ ret = <<0>>

============================================================================
